---- MODULE Spec2Model ----
(***************************************************************************)
(* The dynamic scaler of src/dynamic-scaler: the control loop of           *)
(* DynamicScaler (scaler.py) with the parts of RedisClient and             *)
(* DockerManager it calls.  Time is in seconds.  The loop is one process   *)
(* whose position is pc; a termination signal is a handler that may run    *)
(* between any two of its steps.                                           *)
(***************************************************************************)
EXTENDS Integers, Sequences, FiniteSets, TLC

VARIABLES
    pc,                 \* position of the main thread
    running,            \* DynamicScaler.running
    last_scale_time,    \* DynamicScaler.last_scale_time
    consecutive_errors, \* local of _scaling_loop
    current_time,       \* local of _scaling_loop: time sampled at the top of the iteration
    queue_length,       \* local of _scaling_loop
    current_replicas,   \* local of _scaling_loop
    scaling_decision,   \* local of _scaling_loop
    backoff_time,       \* local of _handle_consecutive_errors
    redis_client,       \* RedisClient._client is not None
    docker_client,      \* DockerManager._client is not None
    exit_code,          \* 0 while the process has not called sys.exit, else its argument
    config,             \* Config (scaling and timing sections)
    clock,              \* environment: time.time()
    queueDepth,         \* environment: length of the list the probe reads
    actualReplicas,     \* environment: containers of the service actually running
    iteration,          \* history: kind of the iteration in progress
    scale_result,       \* history: outcome of scale_service in this iteration
    replica_query,      \* history: outcome of the container list call in this iteration
    cycle_error,        \* history: the failure counted in this iteration
    failStreak,         \* history: failed cycles since the last completed full cycle
    backoffs,           \* history: backoff sleeps since the last completed full cycle
    stop_cause,         \* history: why running became false
    signalled,          \* history: a signal arrived while the loop was running
    store,              \* environment: what the store holds under each candidate key
    client_call,        \* history: the last call of a RedisClient method and its result
    monitor_call,       \* history: the last get_queue_length call of the monitor's client
    containers,         \* environment: the containers the Docker daemon knows
    manager_call,       \* history: the last call of a DockerManager method and its result
    startup,            \* history: the startup stages run so far, with their outcomes
    actuations,         \* history: scale_service calls started and returned in this iteration
    scale_returned,     \* history: when the last successful scale_service call returned,
                        \* kept while less than cooldown_period has passed since
    startup_signal      \* history: a signal arrived before the loop was entered
                        \* and no iteration has begun since

vars == <<pc, running, last_scale_time, consecutive_errors, current_time,
          queue_length, current_replicas, scaling_decision, backoff_time,
          redis_client, docker_client, exit_code, config, clock, queueDepth,
          actualReplicas, iteration, scale_result, replica_query, cycle_error,
          failStreak, backoffs, stop_cause, signalled, store, client_call,
          monitor_call, containers, manager_call, startup, actuations, scale_returned,
          startup_signal>>

----------------------------------------------------------------------------
\* Bounds of the model.

\* the clock saturates at this horizon
MaxTime == 10
\* largest queue depth the store holds
MaxQueue == 2
\* largest number of containers running when the service starts
MaxRunning == 4
\* longest a scale command blocks (stands for the 120 s timeout)
MaxScaleDuration == 2
\* largest queue length given to decide alone
MaxDecideQueue == 7
\* largest replica bound of a configuration given to decide alone
MaxDecideReplicas == 5
\* largest threshold of a configuration given to decide alone
MaxDecideThreshold == 5

\* longest list the store holds under a candidate key
MaxListLen == 7
\* number of containers the daemon knows
MaxContainers == 2

\* Program constants.
max_consecutive_errors == 5
BackoffFactor == 2
BackoffCap == 60

Min(a, b) == IF a < b THEN a ELSE b
Max(a, b) == IF a > b THEN a ELSE b

----------------------------------------------------------------------------
\* Configuration.

\* ScalingConfig's validators
ScalingValid(c) ==
    /\ c.min_replicas >= 1
    /\ c.max_replicas >= c.min_replicas
    /\ c.scale_up_threshold >= 0
    /\ c.scale_down_threshold >= 0

\* TimingConfig's validators
TimingValid(c) ==
    /\ c.polling_interval >= 1
    /\ c.cooldown_period >= 0

\* RedisConfig's validator
RedisValid(c) == 1 <= c.port /\ c.port <= 65535

\* DockerConfig's validator
DockerValid(c) == c.project_name # ""

ConfigRecords(mins, maxs, ups, downs, polls, cools) ==
    [min_replicas : mins, max_replicas : maxs,
     scale_up_threshold : ups, scale_down_threshold : downs,
     polling_interval : polls, cooldown_period : cools]

\* the configurations the loop is run with
LoopConfigs ==
    {c \in ConfigRecords({1}, {3}, {1}, {0}, {1}, {0, 3}) :
        ScalingValid(c) /\ TimingValid(c)}

\* the settings the environment may hold when the service is started: the
\* configurations the loop is run with, and settings a validator rejects
EnvConfigs ==
    {c @@ [port |-> p, project_name |-> n] :
        c \in ConfigRecords({0, 1}, {0, 3}, {1}, {0}, {0, 1}, {0, 3}),
        p \in {0, 6379}, n \in {"", "n8n"}}

\* Config.from_env: every section is validated
ConfigValid(c) ==
    RedisValid(c) /\ ScalingValid(c) /\ DockerValid(c) /\ TimingValid(c)

\* the configurations decide is evaluated with
DecideConfigs ==
    {c \in ConfigRecords(1..MaxDecideReplicas, 1..MaxDecideReplicas,
                         0..MaxDecideThreshold, 0..MaxDecideThreshold,
                         {1}, {0}) :
        ScalingValid(c) /\ TimingValid(c)}

----------------------------------------------------------------------------
\* Pure parts of the code.

NoDecision ==
    [some |-> FALSE, target |-> 0,
     reason |-> [rel |-> "", queue |-> 0, threshold |-> 0]]

\* mutant: the scale-up comparison taken as >=
DecideUpInclusive(q, cur, c) ==
    IF q >= c.scale_up_threshold /\ cur < c.max_replicas
    THEN [some |-> TRUE, target |-> Min(cur + 1, c.max_replicas),
          reason |-> [rel |-> ">", queue |-> q,
                      threshold |-> c.scale_up_threshold]]
    ELSE IF q <= c.scale_down_threshold /\ cur > c.min_replicas
    THEN [some |-> TRUE, target |-> Max(cur - 1, c.min_replicas),
          reason |-> [rel |-> "<=", queue |-> q,
                      threshold |-> c.scale_down_threshold]]
    ELSE NoDecision

\* mutant: the scale-down comparison taken as <
DecideDownStrict(q, cur, c) ==
    IF q > c.scale_up_threshold /\ cur < c.max_replicas
    THEN [some |-> TRUE, target |-> Min(cur + 1, c.max_replicas),
          reason |-> [rel |-> ">", queue |-> q,
                      threshold |-> c.scale_up_threshold]]
    ELSE IF q < c.scale_down_threshold /\ cur > c.min_replicas
    THEN [some |-> TRUE, target |-> Max(cur - 1, c.min_replicas),
          reason |-> [rel |-> "<=", queue |-> q,
                      threshold |-> c.scale_down_threshold]]
    ELSE NoDecision

\* mutant: scale-up without the replica bound
DecideUnclamped(q, cur, c) ==
    IF q > c.scale_up_threshold
    THEN [some |-> TRUE, target |-> cur + 1,
          reason |-> [rel |-> ">", queue |-> q,
                      threshold |-> c.scale_up_threshold]]
    ELSE IF q <= c.scale_down_threshold /\ cur > c.min_replicas
    THEN [some |-> TRUE, target |-> Max(cur - 1, c.min_replicas),
          reason |-> [rel |-> "<=", queue |-> q,
                      threshold |-> c.scale_down_threshold]]
    ELSE NoDecision

\* mutant: the scale-down branch tested first
DecideDownFirst(q, cur, c) ==
    IF q <= c.scale_down_threshold /\ cur > c.min_replicas
    THEN [some |-> TRUE, target |-> Max(cur - 1, c.min_replicas),
          reason |-> [rel |-> "<=", queue |-> q,
                      threshold |-> c.scale_down_threshold]]
    ELSE IF q > c.scale_up_threshold /\ cur < c.max_replicas
    THEN [some |-> TRUE, target |-> Min(cur + 1, c.max_replicas),
          reason |-> [rel |-> ">", queue |-> q,
                      threshold |-> c.scale_up_threshold]]
    ELSE NoDecision

\* mutant: the replica bounds tested inclusively
DecideAtBound(q, cur, c) ==
    IF q > c.scale_up_threshold /\ cur <= c.max_replicas
    THEN [some |-> TRUE, target |-> Min(cur + 1, c.max_replicas),
          reason |-> [rel |-> ">", queue |-> q,
                      threshold |-> c.scale_up_threshold]]
    ELSE IF q <= c.scale_down_threshold /\ cur >= c.min_replicas
    THEN [some |-> TRUE, target |-> Max(cur - 1, c.min_replicas),
          reason |-> [rel |-> "<=", queue |-> q,
                      threshold |-> c.scale_down_threshold]]
    ELSE NoDecision

\* _make_scaling_decision: (target_replicas, reason) or None
Decide(q, cur, c) ==
    IF q > c.scale_up_threshold /\ cur < c.max_replicas
    THEN [some |-> TRUE, target |-> Min(cur + 1, c.max_replicas),
          reason |-> [rel |-> ">", queue |-> q,
                      threshold |-> c.scale_up_threshold]]
    ELSE IF q <= c.scale_down_threshold /\ cur > c.min_replicas
    THEN [some |-> TRUE, target |-> Max(cur - 1, c.min_replicas),
          reason |-> [rel |-> "<=", queue |-> q,
                      threshold |-> c.scale_down_threshold]]
    ELSE NoDecision

\* mutant: the cooldown test reversed
InCooldownReversed(now, last, cooldown) == now - last >= cooldown

\* the cooldown test of _scaling_loop
InCooldown(now, last, cooldown) == now - last < cooldown

\* mutant: the cap taken as the backoff
BackoffTimeCapOnly(n) == BackoffCap

\* the backoff of _handle_consecutive_errors
BackoffTime(n) == Min(n * BackoffFactor, BackoffCap)

\* mutant: the budget test off by one
BudgetExhaustedLate(n, max_errors) == n > max_errors

\* the fail-stop test of _handle_consecutive_errors
BudgetExhausted(n, max_errors) == n >= max_errors

\* mutant: the time of every attempt is recorded
LastScaleTimeAlways(success, now, last) == now

\* last_scale_time after _execute_scaling returned
LastScaleTimeAfter(success, now, last) == IF success THEN now ELSE last

\* mutant: the counter is kept at the end of a full cycle
ErrorsKept(n) == n

\* consecutive_errors at the end of a full cycle
ErrorsAfterCycle(n) == 0

\* mutant: a failed list call reports the containers running
ReplicasReportedExact(outcome, actual) == actual

\* get_current_replicas: the running containers, 0 when the list call fails
ReplicasReported(outcome, actual) == IF outcome = "ok" THEN actual ELSE 0

\* get_queue_length: the list length, 0 when no key can be read
QueueLengthReported(outcome, depth) == IF outcome = "ok" THEN depth ELSE 0

\* mutant: the loop ignores the flag
LoopContinuesAlways(flag) == TRUE

\* while self.running
LoopContinues(flag) == flag

\* mutant: the loop is entered once the store is connected
ServicesConnectedStoreOnly(redisOk, dockerOk) == redisOk

\* _connect_services
ServicesConnected(redisOk, dockerOk) == redisOk /\ dockerOk

\* mutant: a failed call is made again in the same iteration
AfterScalingRetry(success) == IF success THEN "poll_sleep" ELSE "measure"

\* where the loop goes when _execute_scaling returned: to the reset of the
\* counter and the polling sleep, whatever it returned
AfterScaling(success) == "poll_sleep"

\* time.time() after d more seconds, within the horizon
Advance(t, d) == Min(t + d, MaxTime)

----------------------------------------------------------------------------
\* RedisClient (redis_client.py) and the store it reads.

\* QueueConfig: the queue the client is asked about
QueueConfig == [name_prefix |-> "myapp", name |-> "jobs"]

\* QueueConfig.get_queue_key
get_queue_key(qc, state) == qc.name_prefix \o ":" \o qc.name \o ":" \o state

\* mutant: the candidates tried in another order
KeyPatternsWaitingFirst(qc) ==
    <<get_queue_key(qc, "waiting"), get_queue_key(qc, "wait"),
      qc.name_prefix \o ":" \o qc.name>>

\* key_patterns of get_queue_length
KeyPatterns(qc) ==
    <<get_queue_key(qc, "wait"), get_queue_key(qc, "waiting"),
      qc.name_prefix \o ":" \o qc.name>>

\* the keys of the store that belong to the queue
Keys == {KeyPatterns(QueueConfig)[i] : i \in 1..3}

\* what the store holds under a key: nothing, a list, or a value of another type
Contents ==
    {[type |-> "none", len |-> 0], [type |-> "string", len |-> 0]}
        \cup {[type |-> "list", len |-> n] : n \in 1..MaxListLen}

EmptyStore == [k \in Keys |-> [type |-> "none", len |-> 0]]

\* the store's LLEN: 0 for a key that does not exist, the length of a list,
\* a WRONGTYPE error reply (redis.ResponseError) for any other value
LLen(content) ==
    IF content.type = "list" THEN [kind |-> "value", n |-> content.len]
    ELSE IF content.type = "none" THEN [kind |-> "value", n |-> 0]
    ELSE [kind |-> "response_error", n |-> 0]

\* self._client.llen(key): the reply, or an error of the connection
Read(content, fault) ==
    IF fault THEN [kind |-> "error", n |-> 0] ELSE LLen(content)

\* mutant: only redis.ResponseError is caught around a read
ProbeCatchesResponseOnly(kind) == kind = "response_error"

\* the except clauses around a read: redis.ResponseError, then Exception
ProbeCatches(kind) == kind \in {"response_error", "error"}

\* mutant: only redis.ConnectionError and redis.TimeoutError are caught
PingCaughtWithTimeout(outcome) ==
    outcome \in {"connection_error", "timeout"}

\* the except clause of is_connected: redis.ConnectionError
PingCaught(outcome) == outcome = "connection_error"

\* outcomes of a ping round trip
PingOutcomes == {"ok", "connection_error", "timeout", "response_error"}

\* the result of a method: whether it raised, and what it returned
Returned(b, n, rs) == [raised |-> FALSE, bool |-> b, int |-> n, reads |-> rs]
Raised(rs) == [raised |-> TRUE, bool |-> FALSE, int |-> 0, reads |-> rs]

\* the for loop of get_queue_length from candidate i on
RECURSIVE ProbeFrom(_, _, _, _, _)
ProbeFrom(keys, i, st, faults, reads) ==
    IF i > Len(keys)
    THEN Returned(FALSE, 0, reads)
    ELSE LET k == keys[i]
             reply == Read(st[k], faults[k])
             done == Append(reads, k)
         IN IF reply.kind = "value"
            THEN IF reply.n >= 0
                 THEN Returned(FALSE, reply.n, done)
                 ELSE ProbeFrom(keys, i + 1, st, faults, done)
            ELSE IF ProbeCatches(reply.kind)
                 THEN ProbeFrom(keys, i + 1, st, faults, done)
                 ELSE Raised(done)

\* RedisClient.get_queue_length
GetQueueLength(session, qc, st, faults) ==
    IF ~session
    THEN Returned(FALSE, 0, <<>>)
    ELSE ProbeFrom(KeyPatterns(qc), 1, st, faults, <<>>)

\* RedisClient.is_connected
IsConnected(session, ping) ==
    IF ~session THEN Returned(FALSE, 0, <<>>)
    ELSE IF ping = "ok" THEN Returned(TRUE, 0, <<>>)
    ELSE IF PingCaught(ping) THEN Returned(FALSE, 0, <<>>)
    ELSE Raised(<<>>)

\* mutant: the session is dropped only when close returned
SessionAfterDisconnectOnClose(session, outcome) ==
    session /\ outcome = "close_failed"

\* RedisClient.disconnect: _client after the call (finally: _client = None)
SessionAfterDisconnect(session, outcome) == FALSE

\* RedisClient.disconnect: close is called only on a session, and its
\* exceptions are caught
Disconnect(session, outcome) ==
    [session |-> SessionAfterDisconnect(session, outcome),
     closed |-> session,
     result |-> Returned(FALSE, 0, <<>>)]

NoFaults == [k \in Keys |-> FALSE]

Call(op, session, input, faults, result) ==
    [op |-> op, session |-> session, input |-> input, faults |-> faults,
     result |-> result]

NoCall == Call("none", FALSE, "", NoFaults, Returned(FALSE, 0, <<>>))

clientVars == <<store, client_call, monitor_call>>

----------------------------------------------------------------------------
\* The queue-metrics monitor (queue-metrics/monitor.py) and its own
\* RedisClient (queue-metrics/redis_client.py).

\* max_consecutive_errors of _monitor_loop
MonitorMaxErrors == 5
\* the longest backoff sleep of _monitor_loop
MonitorBackoffCap == 30

\* mutant: the candidates tried in another order
MonitorKeyPatternsWaitingFirst(queue_prefix, queue_name) ==
    <<queue_prefix \o ":" \o queue_name \o ":waiting",
      queue_prefix \o ":" \o queue_name \o ":wait",
      queue_prefix \o ":" \o queue_name>>

\* key_patterns of the monitor's get_queue_length
MonitorKeyPatterns(queue_prefix, queue_name) ==
    <<queue_prefix \o ":" \o queue_name \o ":wait",
      queue_prefix \o ":" \o queue_name \o ":waiting",
      queue_prefix \o ":" \o queue_name>>

\* the for loop of the monitor's get_queue_length from candidate i on; a
\* redis.ResponseError and any other Exception of a read are caught
RECURSIVE MonitorProbeFrom(_, _, _, _, _)
MonitorProbeFrom(keys, i, st, faults, reads) ==
    IF i > Len(keys)
    THEN Returned(FALSE, 0, reads)
    ELSE LET k == keys[i]
             reply == Read(st[k], faults[k])
             done == Append(reads, k)
         IN IF reply.kind = "value" /\ reply.n >= 0
            THEN Returned(FALSE, reply.n, done)
            ELSE MonitorProbeFrom(keys, i + 1, st, faults, done)

\* the monitor's RedisClient.get_queue_length
MonitorGetQueueLength(session, queue_prefix, queue_name, st, faults) ==
    IF ~session
    THEN Returned(FALSE, 0, <<>>)
    ELSE MonitorProbeFrom(MonitorKeyPatterns(queue_prefix, queue_name), 1,
                          st, faults, <<>>)

\* the monitor's RedisClient.is_connected: only redis.ConnectionError is
\* caught
MonitorIsConnected(session, ping) ==
    IF ~session THEN Returned(FALSE, 0, <<>>)
    ELSE IF ping = "ok" THEN Returned(TRUE, 0, <<>>)
    ELSE IF ping = "connection_error" THEN Returned(FALSE, 0, <<>>)
    ELSE Raised(<<>>)

\* the monitor's RedisClient.connect: _client after the call
MonitorSessionAfterConnect(session, outcome) ==
    IF outcome = "no_client" THEN session ELSE TRUE

\* the backoff sleep of _monitor_loop after n consecutive errors
MonitorBackoffTime(n) == Min(n * 2, MonitorBackoffCap)

----------------------------------------------------------------------------
\* DockerManager (docker_manager.py) and the containers it counts.

\* the containers of the daemon: a container carries the compose labels
\* (whether they are those of the configured service and project) and a status
ContainerRecs ==
    [service : BOOLEAN, project : BOOLEAN, status : {"running", "exited"}]

ContainerIds == 1..MaxContainers

NoContainers ==
    [i \in ContainerIds |->
        [service |-> FALSE, project |-> FALSE, status |-> "exited"]]

\* the result of a DockerManager method
Answer(raised, b, n, issued) ==
    [raised |-> raised, bool |-> b, int |-> n, issued |-> issued]

ManagerCall(op, client, input, target, result) ==
    [op |-> op, client |-> client, input |-> input, target |-> target,
     result |-> result]

NoManagerCall ==
    ManagerCall("none", FALSE, "", 0, Answer(FALSE, FALSE, 0, FALSE))

\* mutant: the project label is not part of the filter
ListContainersAnyProject(cs) ==
    {i \in DOMAIN cs : cs[i].service /\ cs[i].status = "running"}

\* self._client.containers.list(filters=filters): the daemon answers with
\* the containers that carry both labels and have the status asked for
ListContainers(cs) ==
    {i \in DOMAIN cs :
        cs[i].service /\ cs[i].project /\ cs[i].status = "running"}

\* outcomes of the list call
ListOutcomes == {"ok", "docker_error", "error"}

\* DockerManager.get_current_replicas
GetCurrentReplicas(client, listing, cs) ==
    IF ~client
    THEN Answer(FALSE, FALSE, 0, FALSE)
    ELSE IF listing = "ok"
    THEN Answer(FALSE, FALSE,
                Cardinality({i \in ListContainers(cs) :
                                cs[i].status = "running"}),
                TRUE)
    ELSE \* except Exception
         Answer(FALSE, FALSE, 0, TRUE)

\* outcomes of subprocess.run(command, check=True, timeout=120)
ScaleOutcomes == {"exit_zero", "exit_nonzero", "timeout", "not_found", "error"}

\* mutant: only a non-zero exit is a failure
ScaleSucceededUnlessNonZero(outcome) == outcome # "exit_nonzero"

\* the try block of scale_service returns True; CalledProcessError,
\* TimeoutExpired, FileNotFoundError and Exception return False
ScaleSucceeded(outcome) == outcome = "exit_zero"

\* DockerManager.scale_service
ScaleService(target, outcome) ==
    IF target < 0
    THEN Answer(FALSE, FALSE, 0, FALSE)
    ELSE Answer(FALSE, ScaleSucceeded(outcome), 0, TRUE)

\* docker compose up --scale service=target: the containers of the service
\* converged to target running ones, the other containers as they were
Converged(cs, target) ==
    {after \in [DOMAIN cs -> ContainerRecs] :
        /\ \A i \in DOMAIN cs :
              /\ after[i].service = cs[i].service
              /\ after[i].project = cs[i].project
              /\ ~(cs[i].service /\ cs[i].project)
                     => after[i].status = cs[i].status
        /\ Cardinality(ListContainers(after)) = target}

\* outcomes of the compose config command of validate_setup
ManifestOutcomes == {"ok", "missing", "invalid", "error"}

\* mutant: the manifest is not looked at
ValidateSetupProjectOnly(project_name, manifest) == project_name # ""

\* DockerManager.validate_setup
ValidateSetup(project_name, manifest) ==
    IF project_name = "" THEN FALSE
    ELSE manifest = "ok"

managerVars == <<containers, manager_call>>

----------------------------------------------------------------------------
\* History of the control loop.

NoActuations == [started |-> 0, returned |-> 0]

\* no successful scale_service call has returned yet
Never == -1

\* the return time kept at time now: forgotten once cooldown seconds have
\* passed since
Recent(returned, now, cooldown) ==
    IF returned >= 0 /\ now - returned < cooldown THEN returned ELSE Never

Stage(name, ok) == [stage |-> name, ok |-> ok]

----------------------------------------------------------------------------
\* The service.

LoopPcs == {"loop_top", "check_conn", "measure", "scaling", "poll_sleep",
            "backoff_sleep"}

\* DynamicScaler.__init__, and the environment the service is started in
Init ==
    /\ pc = "main"
    /\ running = FALSE
    /\ last_scale_time = 0
    /\ consecutive_errors = 0
    /\ current_time = 0
    /\ queue_length = 0
    /\ current_replicas = 0
    /\ scaling_decision = NoDecision
    /\ backoff_time = 0
    /\ redis_client = FALSE
    /\ docker_client = FALSE
    /\ exit_code = 0
    /\ config \in EnvConfigs
    /\ clock \in {0, MaxTime \div 2}
    /\ queueDepth \in 0..MaxQueue
    /\ actualReplicas \in 0..MaxRunning
    /\ iteration = "none"
    /\ scale_result = "none"
    /\ replica_query = "none"
    /\ cycle_error = "none"
    /\ failStreak = 0
    /\ backoffs = <<>>
    /\ stop_cause = "none"
    /\ signalled = FALSE
    /\ store = EmptyStore
    /\ client_call = NoCall
    /\ monitor_call = NoCall
    /\ containers = NoContainers
    /\ manager_call = NoManagerCall
    /\ startup = <<>>
    /\ actuations = NoActuations
    /\ scale_returned = Never
    /\ startup_signal = FALSE

envVars == <<clock, queueDepth, actualReplicas>>
historyVars == <<iteration, scale_result, replica_query, cycle_error,
                 failStreak, backoffs, stop_cause, signalled>>
cycleLocals == <<current_time, queue_length, current_replicas,
                 scaling_decision, backoff_time>>

\* main: Config.from_env, then DynamicScaler(config); a validation error is
\* caught by main, which exits with 1
FromEnv ==
    /\ pc = "main"
    /\ startup' = Append(startup, Stage("config", ConfigValid(config)))
    /\ IF ConfigValid(config)
       THEN /\ pc' = "created"
            /\ exit_code' = exit_code
       ELSE /\ pc' = "exited"
            /\ exit_code' = 1
    /\ UNCHANGED <<clientVars, managerVars, startup_signal, actuations, scale_returned, running,
                   last_scale_time, consecutive_errors, cycleLocals,
                   redis_client, docker_client, config, envVars, historyVars>>

\* start: the signal handlers are installed, then _validate_setup
StartValidate ==
    /\ pc = "created"
    /\ \E manifest \in ManifestOutcomes :
        LET valid == ValidateSetup(config.project_name, manifest)
        IN /\ startup' = Append(startup, Stage("preflight", valid))
           /\ IF valid
              THEN /\ pc' = "validated"
                   /\ exit_code' = exit_code
              ELSE /\ pc' = "exited"
                   /\ exit_code' = 1
    /\ UNCHANGED <<clientVars, managerVars, startup_signal, actuations, scale_returned, running, last_scale_time, consecutive_errors, cycleLocals,
                   redis_client, docker_client, config, envVars, historyVars>>

\* start: _connect_services
ConnectServices ==
    /\ pc = "validated"
    /\ \E redisOk \in BOOLEAN, dockerOk \in BOOLEAN, clientMade \in BOOLEAN :
        /\ IF ~redisOk
           THEN \* RedisClient.connect failed: _client is set unless redis.Redis raised
                /\ redis_client' = clientMade
                /\ docker_client' = docker_client
                /\ startup' = Append(startup, Stage("store", FALSE))
           ELSE IF ~dockerOk
           THEN \* DockerManager.connect failed: the store session is released
                /\ redis_client' = SessionAfterDisconnect(TRUE, "ok")
                /\ docker_client' = clientMade
                /\ startup' = startup \o <<Stage("store", TRUE),
                                           Stage("orchestrator", FALSE)>>
           ELSE /\ redis_client' = TRUE
                /\ docker_client' = TRUE
                /\ startup' = startup \o <<Stage("store", TRUE),
                                           Stage("orchestrator", TRUE)>>
        /\ IF ServicesConnected(redisOk, dockerOk)
           THEN /\ pc' = "connected"
                /\ exit_code' = exit_code
           ELSE /\ pc' = "exited"
                /\ exit_code' = 1
    /\ UNCHANGED <<clientVars, managerVars, startup_signal, actuations, scale_returned, running, last_scale_time, consecutive_errors, cycleLocals,
                   config, envVars, historyVars>>

\* start: running is set and _scaling_loop entered
EnterLoop ==
    /\ pc = "connected"
    /\ running' = TRUE
    /\ consecutive_errors' = 0
    /\ pc' = "loop_top"
    /\ UNCHANGED <<clientVars, managerVars, startup_signal, startup, actuations, scale_returned, last_scale_time, cycleLocals, redis_client, docker_client,
                   exit_code, config, envVars, historyVars>>

\* mutant: the shutdown that does not release the store session
ShutdownKeepsSession ==
    /\ running' = FALSE
    /\ redis_client' = redis_client
    /\ pc' = "stopped"

\* _shutdown, reached when the while test fails or on break
Shutdown ==
    /\ running' = FALSE
    /\ redis_client' = FALSE
    /\ pc' = "stopped"

\* while self.running: the flag is false
LoopExit ==
    /\ pc = "loop_top"
    /\ ~LoopContinues(running)
    /\ Shutdown
    /\ UNCHANGED <<clientVars, managerVars, startup_signal, startup, actuations, scale_returned, last_scale_time, consecutive_errors, cycleLocals,
                   docker_client, exit_code, config, envVars, historyVars>>

\* an iteration within the cooldown period
CooldownBranch ==
    /\ pc = "loop_top"
    /\ LoopContinues(running)
    /\ InCooldown(clock, last_scale_time, config.cooldown_period)
    /\ current_time' = clock
    /\ iteration' = "cooldown"
    /\ scale_result' = "none"
    /\ replica_query' = "none"
    /\ cycle_error' = "none"
    /\ actuations' = NoActuations
    /\ startup_signal' = FALSE
    /\ pc' = "poll_sleep"
    /\ UNCHANGED <<clientVars, managerVars, startup, scale_returned, running, last_scale_time, consecutive_errors, queue_length,
                   current_replicas, scaling_decision, backoff_time,
                   redis_client, docker_client, exit_code, config, envVars,
                   failStreak, backoffs, stop_cause, signalled>>

\* an iteration outside the cooldown period
BeginCycle ==
    /\ pc = "loop_top"
    /\ LoopContinues(running)
    /\ ~InCooldown(clock, last_scale_time, config.cooldown_period)
    /\ current_time' = clock
    /\ iteration' = "cycle"
    /\ scale_result' = "none"
    /\ replica_query' = "none"
    /\ cycle_error' = "none"
    /\ actuations' = NoActuations
    /\ startup_signal' = FALSE
    /\ pc' = "check_conn"
    /\ UNCHANGED <<clientVars, managerVars, startup, scale_returned, running, last_scale_time, consecutive_errors, queue_length,
                   current_replicas, scaling_decision, backoff_time,
                   redis_client, docker_client, exit_code, config, envVars,
                   failStreak, backoffs, stop_cause, signalled>>

\* is_connected is true, or it is false and connect succeeds
ConnectionLive ==
    /\ pc = "check_conn"
    /\ pc' = "measure"
    /\ UNCHANGED <<clientVars, managerVars, startup_signal, startup, actuations, scale_returned, running, last_scale_time, consecutive_errors, cycleLocals,
                   redis_client, docker_client, exit_code, config, envVars,
                   historyVars>>

\* consecutive_errors += 1, then _handle_consecutive_errors
CountError ==
    LET n == consecutive_errors + 1 IN
    /\ consecutive_errors' = n
    /\ failStreak' = Min(failStreak + 1, max_consecutive_errors)
    /\ IF BudgetExhausted(n, max_consecutive_errors)
       THEN /\ running' = FALSE
            /\ stop_cause' = IF running THEN "budget" ELSE stop_cause
            /\ backoff_time' = backoff_time
            /\ backoffs' = backoffs
            /\ pc' = "loop_top"
       ELSE /\ running' = running
            /\ stop_cause' = stop_cause
            /\ backoff_time' = BackoffTime(n)
            /\ backoffs' = Append(backoffs, BackoffTime(n))
            /\ pc' = "backoff_sleep"

\* is_connected is false and connect fails
ReconnectFailed ==
    /\ pc = "check_conn"
    /\ CountError
    /\ cycle_error' = "reconnect"
    /\ UNCHANGED <<clientVars, managerVars, startup_signal, startup, actuations, scale_returned, last_scale_time, current_time, queue_length,
                   current_replicas, scaling_decision, redis_client,
                   docker_client, exit_code, config, envVars, iteration,
                   scale_result, replica_query, signalled>>

\* is_connected raises an error other than redis.ConnectionError: except Exception
CycleException ==
    /\ pc = "check_conn"
    /\ CountError
    /\ cycle_error' = "exception"
    /\ UNCHANGED <<clientVars, managerVars, startup_signal, startup, actuations, scale_returned, last_scale_time, current_time, queue_length,
                   current_replicas, scaling_decision, redis_client,
                   docker_client, exit_code, config, envVars, iteration,
                   scale_result, replica_query, signalled>>

\* except KeyboardInterrupt: break.  The calls after the connection check
\* catch every exception themselves, so the check is where a cycle raises.
KeyboardInterrupt ==
    /\ pc = "check_conn"
    /\ Shutdown
    /\ stop_cause' = IF running THEN "interrupt" ELSE stop_cause
    /\ UNCHANGED <<clientVars, managerVars, startup_signal, startup, actuations, scale_returned, last_scale_time, consecutive_errors, cycleLocals,
                   docker_client, exit_code, config, envVars, iteration,
                   scale_result, replica_query, cycle_error, failStreak,
                   backoffs, signalled>>

\* the end of a full cycle: the counter is reset, then the polling sleep
EndCycle ==
    /\ consecutive_errors' = ErrorsAfterCycle(consecutive_errors)
    /\ failStreak' = 0
    /\ backoffs' = <<>>
    /\ pc' = "poll_sleep"

\* get_queue_length, get_current_replicas, _make_scaling_decision
Measure ==
    /\ pc = "measure"
    /\ \E probe \in {"ok", "unreadable"}, listing \in {"ok", "failed"} :
        LET q == QueueLengthReported(probe, queueDepth)
            r == ReplicasReported(listing, actualReplicas)
            d == Decide(q, r, config)
        IN /\ queue_length' = q
           /\ current_replicas' = r
           /\ scaling_decision' = d
           /\ replica_query' = listing
           /\ IF d.some
              THEN \* _execute_scaling: scale_service is called and blocks
                   /\ pc' = "scaling"
                   /\ actuations' = [actuations EXCEPT !.started = @ + 1]
                   /\ UNCHANGED <<consecutive_errors, failStreak, backoffs>>
              ELSE /\ EndCycle
                   /\ actuations' = actuations
    /\ UNCHANGED <<clientVars, managerVars, startup_signal, startup, scale_returned, running, last_scale_time, current_time, backoff_time,
                   redis_client, docker_client, exit_code, config, envVars,
                   iteration, scale_result, cycle_error, stop_cause,
                   signalled>>

\* scale_service returns after at most the timeout
ScaleReturn ==
    /\ pc = "scaling"
    /\ \E success \in BOOLEAN, took \in 0..MaxScaleDuration :
        /\ last_scale_time' =
               LastScaleTimeAfter(success, current_time, last_scale_time)
        /\ scale_result' = IF success THEN "ok" ELSE "failed"
        /\ actualReplicas' \in
               IF success THEN {scaling_decision.target}
               ELSE \* a failed or timed out command may have taken effect
                    {actualReplicas, scaling_decision.target}
        /\ clock' = Advance(clock, took)
        /\ scale_returned' =
               Recent(IF success THEN clock' ELSE scale_returned, clock',
                      config.cooldown_period)
        /\ pc' = AfterScaling(success)
    /\ actuations' = [actuations EXCEPT !.returned = @ + 1]
    /\ consecutive_errors' = ErrorsAfterCycle(consecutive_errors)
    /\ failStreak' = 0
    /\ backoffs' = <<>>
    /\ UNCHANGED <<clientVars, managerVars, startup_signal, startup, running, cycleLocals, redis_client, docker_client,
                   exit_code, config, queueDepth, iteration, replica_query,
                   cycle_error, stop_cause, signalled>>

\* time.sleep(polling_interval)
PollSleep ==
    /\ pc = "poll_sleep"
    /\ clock' = Advance(clock, config.polling_interval)
    /\ scale_returned' = Recent(scale_returned, clock', config.cooldown_period)
    /\ pc' = "loop_top"
    /\ UNCHANGED <<clientVars, managerVars, startup_signal, startup, actuations, running, last_scale_time, consecutive_errors, cycleLocals,
                   redis_client, docker_client, exit_code, config, queueDepth,
                   actualReplicas, historyVars>>

\* time.sleep(backoff_time) in _handle_consecutive_errors
BackoffSleep ==
    /\ pc = "backoff_sleep"
    /\ clock' = Advance(clock, backoff_time)
    /\ scale_returned' = Recent(scale_returned, clock', config.cooldown_period)
    /\ pc' = "loop_top"
    /\ UNCHANGED <<clientVars, managerVars, startup_signal, startup, actuations, running, last_scale_time, consecutive_errors, cycleLocals,
                   redis_client, docker_client, exit_code, config, queueDepth,
                   actualReplicas, historyVars>>

\* _signal_handler, run between two steps of the main thread
Signal ==
    /\ pc \in LoopPcs \cup {"validated", "connected"}
    /\ running' = FALSE
    /\ signalled' = (signalled \/ pc \in LoopPcs)
    /\ startup_signal' = (startup_signal \/ pc \notin LoopPcs)
    /\ stop_cause' = IF running THEN "signal" ELSE stop_cause
    /\ UNCHANGED <<clientVars, managerVars, startup, actuations, scale_returned, pc, last_scale_time, consecutive_errors, cycleLocals,
                   redis_client, docker_client, exit_code, config, envVars,
                   iteration, scale_result, replica_query, cycle_error,
                   failStreak, backoffs>>

\* environment: jobs are added to or taken from the queue
QueueChange ==
    /\ pc \in LoopPcs
    /\ \E n \in 0..MaxQueue :
        /\ n # queueDepth
        /\ queueDepth' = n
    /\ UNCHANGED <<clientVars, managerVars, startup_signal, startup, actuations, scale_returned, pc, running, last_scale_time, consecutive_errors,
                   cycleLocals, redis_client, docker_client, exit_code,
                   config, clock, actualReplicas, historyVars>>

\* the steps of the main thread
MainThread ==
    \/ FromEnv
    \/ StartValidate
    \/ ConnectServices
    \/ EnterLoop
    \/ LoopExit
    \/ CooldownBranch
    \/ BeginCycle
    \/ ConnectionLive
    \/ ReconnectFailed
    \/ CycleException
    \/ KeyboardInterrupt
    \/ Measure
    \/ ScaleReturn
    \/ PollSleep
    \/ BackoffSleep

Next ==
    \/ MainThread
    \/ Signal
    \/ QueueChange

Spec == Init /\ [][Next]_vars

\* every blocking call of the main thread returns: sleeps end, the store
\* client has socket timeouts and the scale command a 120 s timeout
FairSpec == Spec /\ WF_vars(MainThread)

----------------------------------------------------------------------------
\* decide alone: _make_scaling_decision applied to drawn inputs.

InitDecide ==
    /\ pc = "decide"
    /\ running = FALSE
    /\ last_scale_time = 0
    /\ consecutive_errors = 0
    /\ current_time = 0
    /\ queue_length \in 0..MaxDecideQueue
    /\ current_replicas \in 0..(MaxDecideReplicas + 1)
    /\ scaling_decision = NoDecision
    /\ backoff_time = 0
    /\ redis_client = FALSE
    /\ docker_client = FALSE
    /\ exit_code = 0
    /\ config \in DecideConfigs
    /\ clock = 0
    /\ queueDepth = 0
    /\ actualReplicas = 0
    /\ iteration = "none"
    /\ scale_result = "none"
    /\ replica_query = "none"
    /\ cycle_error = "none"
    /\ failStreak = 0
    /\ backoffs = <<>>
    /\ stop_cause = "none"
    /\ signalled = FALSE
    /\ store = EmptyStore
    /\ client_call = NoCall
    /\ monitor_call = NoCall
    /\ containers = NoContainers
    /\ manager_call = NoManagerCall
    /\ startup = <<>>
    /\ actuations = NoActuations
    /\ scale_returned = Never
    /\ startup_signal = FALSE

\* one call of _make_scaling_decision
DecideCall ==
    /\ pc = "decide"
    /\ scaling_decision' = Decide(queue_length, current_replicas, config)
    /\ pc' = "decided"
    /\ UNCHANGED <<clientVars, managerVars, startup_signal, startup, actuations, scale_returned, running, last_scale_time, consecutive_errors, current_time,
                   queue_length, current_replicas, backoff_time, redis_client,
                   docker_client, exit_code, config, envVars, historyVars>>

NextDecide == DecideCall

SpecDecide == InitDecide /\ [][NextDecide]_vars

----------------------------------------------------------------------------
\* The loop with a queue depth that stays as it is, a scale command that
\* always succeeds and a list call that always answers: one step is one
\* full cycle of _scaling_loop.

InitSettle ==
    /\ pc = "settle"
    /\ running = TRUE
    /\ last_scale_time = 0
    /\ consecutive_errors = 0
    /\ current_time = 0
    /\ queue_length = 0
    /\ current_replicas = 0
    /\ scaling_decision = NoDecision
    /\ backoff_time = 0
    /\ redis_client = TRUE
    /\ docker_client = TRUE
    /\ exit_code = 0
    /\ config \in DecideConfigs
    /\ clock = 1
    /\ queueDepth \in 0..MaxDecideQueue
    /\ actualReplicas \in 0..(MaxDecideReplicas + 1)
    /\ iteration = "none"
    /\ scale_result = "none"
    /\ replica_query = "none"
    /\ cycle_error = "none"
    /\ failStreak = 0
    /\ backoffs = <<>>
    /\ stop_cause = "none"
    /\ signalled = FALSE
    /\ store = EmptyStore
    /\ client_call = NoCall
    /\ monitor_call = NoCall
    /\ containers = NoContainers
    /\ manager_call = NoManagerCall
    /\ startup = <<>>
    /\ actuations = NoActuations
    /\ scale_returned = Never
    /\ startup_signal = FALSE

\* one full cycle: measurement, decision, the scale call when there is a
\* decision, the counter reset and the polling sleep
SettleCycle ==
    /\ pc \in {"settle", "settled"}
    /\ LoopContinues(running)
    /\ ~InCooldown(clock, last_scale_time, config.cooldown_period)
    /\ LET q == QueueLengthReported("ok", queueDepth)
           r == ReplicasReported("ok", actualReplicas)
           d == Decide(q, r, config)
       IN /\ current_time' = clock
          /\ queue_length' = q
          /\ current_replicas' = r
          /\ scaling_decision' = d
          /\ replica_query' = "ok"
          /\ iteration' = "cycle"
          /\ IF d.some
             THEN /\ actualReplicas' = d.target
                  /\ scale_result' = "ok"
                  /\ last_scale_time' =
                         LastScaleTimeAfter(TRUE, clock, last_scale_time)
                  /\ pc' = "settle"
             ELSE /\ actualReplicas' = actualReplicas
                  /\ scale_result' = "none"
                  /\ last_scale_time' = last_scale_time
                  /\ pc' = "settled"
    /\ consecutive_errors' = ErrorsAfterCycle(consecutive_errors)
    /\ clock' = Advance(clock, config.polling_interval)
    /\ UNCHANGED <<clientVars, managerVars, startup_signal, startup, actuations,
                   scale_returned, running, backoff_time, redis_client,
                   docker_client, exit_code, config, queueDepth,
                   cycle_error, failStreak, backoffs, stop_cause, signalled>>

NextSettle == SettleCycle

\* the sleeps end and the scale command returns within its timeout
SpecSettle == InitSettle /\ [][NextSettle]_vars /\ WF_vars(NextSettle)

----------------------------------------------------------------------------
\* RedisClient alone: its methods called in any order on any store.

InitClient ==
    /\ pc = "client"
    /\ running = FALSE
    /\ last_scale_time = 0
    /\ consecutive_errors = 0
    /\ current_time = 0
    /\ queue_length = 0
    /\ current_replicas = 0
    /\ scaling_decision = NoDecision
    /\ backoff_time = 0
    /\ redis_client = FALSE
    /\ docker_client = FALSE
    /\ exit_code = 0
    /\ config \in {c \in LoopConfigs : c.cooldown_period = 0}
    /\ clock = 0
    /\ queueDepth = 0
    /\ actualReplicas = 0
    /\ iteration = "none"
    /\ scale_result = "none"
    /\ replica_query = "none"
    /\ cycle_error = "none"
    /\ failStreak = 0
    /\ backoffs = <<>>
    /\ stop_cause = "none"
    /\ signalled = FALSE
    /\ store \in [Keys -> Contents]
    /\ client_call = NoCall
    /\ monitor_call = NoCall
    /\ containers = NoContainers
    /\ manager_call = NoManagerCall
    /\ startup = <<>>
    /\ actuations = NoActuations
    /\ scale_returned = Never
    /\ startup_signal = FALSE

clientFrame == <<pc, running, last_scale_time, consecutive_errors,
                 cycleLocals, docker_client, exit_code, config, envVars,
                 historyVars, store, monitor_call, managerVars, startup,
                 actuations, scale_returned, startup_signal>>

\* RedisClient.connect: the client is made, then pinged
ClientConnect ==
    /\ pc = "client"
    /\ \E outcome \in {"ok", "ping_failed", "no_client"} :
        /\ redis_client' = IF outcome = "no_client" THEN redis_client ELSE TRUE
        /\ client_call' = Call("connect", redis_client, outcome, NoFaults,
                               Returned(outcome = "ok", 0, <<>>))
    /\ UNCHANGED clientFrame

\* RedisClient.disconnect: close, with its error caught, then _client = None
ClientDisconnect ==
    /\ pc = "client"
    /\ \E outcome \in {"ok", "close_failed"} :
        LET d == Disconnect(redis_client, outcome)
        IN /\ redis_client' = d.session
           /\ client_call' =
                  Call("disconnect", redis_client,
                       IF d.closed THEN outcome ELSE "no_client", NoFaults,
                       d.result)
    /\ UNCHANGED clientFrame

\* RedisClient.is_connected
ClientIsConnected ==
    /\ pc = "client"
    /\ \E ping \in PingOutcomes :
        client_call' = Call("is_connected", redis_client, ping, NoFaults,
                            IsConnected(redis_client, ping))
    /\ UNCHANGED <<clientFrame, redis_client>>

\* RedisClient.get_queue_length
ClientGetQueueLength ==
    /\ pc = "client"
    /\ \E faults \in [Keys -> BOOLEAN] :
        client_call' =
            Call("get_queue_length", redis_client, "", faults,
                 GetQueueLength(redis_client, QueueConfig, store, faults))
    /\ UNCHANGED <<clientFrame, redis_client>>

NextClient ==
    \/ ClientConnect
    \/ ClientDisconnect
    \/ ClientIsConnected
    \/ ClientGetQueueLength

SpecClient == InitClient /\ [][NextClient]_vars

----------------------------------------------------------------------------
\* DockerManager alone: its methods called in any order on any containers.

InitManager ==
    /\ pc = "manager"
    /\ running = FALSE
    /\ last_scale_time = 0
    /\ consecutive_errors = 0
    /\ current_time = 0
    /\ queue_length = 0
    /\ current_replicas = 0
    /\ scaling_decision = NoDecision
    /\ backoff_time = 0
    /\ redis_client = FALSE
    /\ docker_client = FALSE
    /\ exit_code = 0
    /\ config \in {c \in LoopConfigs : c.cooldown_period = 0}
    /\ clock = 0
    /\ queueDepth = 0
    /\ actualReplicas = 0
    /\ iteration = "none"
    /\ scale_result = "none"
    /\ replica_query = "none"
    /\ cycle_error = "none"
    /\ failStreak = 0
    /\ backoffs = <<>>
    /\ stop_cause = "none"
    /\ signalled = FALSE
    /\ store = EmptyStore
    /\ client_call = NoCall
    /\ monitor_call = NoCall
    /\ containers \in [ContainerIds -> ContainerRecs]
    /\ manager_call = NoManagerCall
    /\ startup = <<>>
    /\ actuations = NoActuations
    /\ scale_returned = Never
    /\ startup_signal = FALSE

managerFrame == <<pc, running, last_scale_time, consecutive_errors,
                  cycleLocals, redis_client, exit_code, config, envVars,
                  historyVars, clientVars, startup, actuations,
                  scale_returned, startup_signal>>

\* DockerManager.connect: the client is made, then pinged
ManagerConnect ==
    /\ pc = "manager"
    /\ \E outcome \in {"ok", "ping_failed", "no_client"} :
        /\ docker_client' = IF outcome = "no_client" THEN docker_client ELSE TRUE
        /\ manager_call' =
               ManagerCall("connect", docker_client, outcome, 0,
                           Answer(FALSE, outcome = "ok", 0, FALSE))
    /\ UNCHANGED <<managerFrame, containers>>

\* DockerManager.get_current_replicas
ManagerGetCurrentReplicas ==
    /\ pc = "manager"
    /\ \E listing \in ListOutcomes :
        LET a == GetCurrentReplicas(docker_client, listing, containers)
        IN manager_call' =
               ManagerCall("get_current_replicas", docker_client,
                           IF a.issued THEN listing ELSE "not_issued", 0, a)
    /\ UNCHANGED <<managerFrame, containers, docker_client>>

\* DockerManager.scale_service
ManagerScaleService ==
    /\ pc = "manager"
    /\ \E target \in (-1)..MaxContainers, outcome \in ScaleOutcomes :
        LET a == ScaleService(target, outcome)
        IN /\ manager_call' =
                  ManagerCall("scale_service", docker_client,
                              IF a.issued THEN outcome ELSE "not_issued",
                              target, a)
           /\ containers' \in
                  IF a.bool THEN Converged(containers, target)
                  ELSE {containers}
    /\ UNCHANGED <<managerFrame, docker_client>>

NextManager ==
    \/ ManagerConnect
    \/ ManagerGetCurrentReplicas
    \/ ManagerScaleService

SpecManager == InitManager /\ [][NextManager]_vars

----------------------------------------------------------------------------
\* The queue-metrics monitor: QueueMonitor.start and _monitor_loop. Beside
\* each get_queue_length call of the monitor, client_call holds what the
\* scaler's get_queue_length returns for the same session, store and read
\* outcomes.

InitMonitor ==
    /\ pc = "monitor_created"
    /\ running = FALSE
    /\ last_scale_time = 0
    /\ consecutive_errors = 0
    /\ current_time = 0
    /\ queue_length = 0
    /\ current_replicas = 0
    /\ scaling_decision = NoDecision
    /\ backoff_time = 0
    /\ redis_client = FALSE
    /\ docker_client = FALSE
    /\ exit_code = 0
    /\ config \in {c \in LoopConfigs : c.cooldown_period = 0}
    /\ clock = 0
    /\ queueDepth = 0
    /\ actualReplicas = 0
    /\ iteration = "none"
    /\ scale_result = "none"
    /\ replica_query = "none"
    /\ cycle_error = "none"
    /\ failStreak = 0
    /\ backoffs = <<>>
    /\ stop_cause = "none"
    /\ signalled = FALSE
    /\ store \in [Keys -> Contents]
    /\ client_call = NoCall
    /\ monitor_call = NoCall
    /\ containers = NoContainers
    /\ manager_call = NoManagerCall
    /\ startup = <<>>
    /\ actuations = NoActuations
    /\ scale_returned = Never
    /\ startup_signal = FALSE

\* what no step of the monitor assigns
monitorFrame == <<last_scale_time, current_time, current_replicas,
                  scaling_decision, docker_client, config, envVars,
                  historyVars, store, managerVars, startup, actuations,
                  scale_returned, startup_signal>>

\* start: the handlers are installed, then connect; sys.exit(1) when it
\* fails, else running = True and the loop is entered
MonitorStart ==
    /\ pc = "monitor_created"
    /\ \E outcome \in {"ok", "ping_failed", "no_client"} :
        /\ redis_client' = MonitorSessionAfterConnect(redis_client, outcome)
        /\ IF outcome = "ok"
           THEN /\ running' = TRUE
                /\ exit_code' = exit_code
                /\ pc' = "monitor_top"
           ELSE /\ running' = running
                /\ exit_code' = 1
                /\ pc' = "monitor_exited"
    /\ consecutive_errors' = 0
    /\ UNCHANGED <<queue_length, backoff_time, client_call, monitor_call,
                   monitorFrame>>

\* a counted error of an iteration: the loop is left at the fifth in a
\* row, and _shutdown releases the session; else the backoff sleep begins
MonitorCountError(session) ==
    /\ consecutive_errors' = consecutive_errors + 1
    /\ IF consecutive_errors + 1 >= MonitorMaxErrors
       THEN /\ running' = FALSE
            /\ redis_client' = FALSE
            /\ backoff_time' = backoff_time
            /\ pc' = "monitor_stopped"
       ELSE /\ running' = running
            /\ redis_client' = session
            /\ backoff_time' = MonitorBackoffTime(consecutive_errors + 1)
            /\ pc' = "monitor_backoff"

\* an iteration that does not reach the probe: is_connected raised, or it
\* returned False and connect failed
MonitorConnectionLost ==
    /\ pc = "monitor_top"
    /\ running
    /\ \E ping \in PingOutcomes, outcome \in {"ok", "ping_failed", "no_client"} :
        LET live == MonitorIsConnected(redis_client, ping)
        IN /\ live.raised \/ (~live.bool /\ outcome # "ok")
           /\ MonitorCountError(
                  IF live.raised THEN redis_client
                  ELSE MonitorSessionAfterConnect(redis_client, outcome))
    /\ UNCHANGED <<queue_length, exit_code, client_call, monitor_call,
                   monitorFrame>>

\* an iteration with a live or restored connection: get_queue_length, the
\* log line, the reset of the counter (get_queue_stats only reads)
MonitorProbe ==
    /\ pc = "monitor_top"
    /\ running
    /\ \E ping \in PingOutcomes, outcome \in {"ok", "ping_failed", "no_client"},
          faults \in [Keys -> BOOLEAN] :
        LET live == MonitorIsConnected(redis_client, ping)
            m == MonitorGetQueueLength(TRUE, QueueConfig.name_prefix,
                                       QueueConfig.name, store, faults)
        IN /\ ~live.raised
           /\ live.bool \/ outcome = "ok"
           /\ monitor_call' = Call("get_queue_length", TRUE, "", faults, m)
           /\ client_call' =
                  Call("get_queue_length", TRUE, "", faults,
                       GetQueueLength(TRUE, QueueConfig, store, faults))
           /\ IF m.raised
              THEN /\ MonitorCountError(TRUE)
                   /\ queue_length' = queue_length
              ELSE /\ queue_length' = m.int
                   /\ consecutive_errors' = 0
                   /\ redis_client' = TRUE
                   /\ pc' = "monitor_sleep"
                   /\ UNCHANGED <<running, backoff_time>>
    /\ UNCHANGED <<exit_code, monitorFrame>>

\* time.sleep(poll_interval)
MonitorPollSleep ==
    /\ pc = "monitor_sleep"
    /\ pc' = "monitor_top"
    /\ UNCHANGED <<running, consecutive_errors, queue_length, backoff_time,
                   redis_client, exit_code, client_call, monitor_call,
                   monitorFrame>>

\* time.sleep(min(consecutive_errors * 2, 30))
MonitorBackoffSleep ==
    /\ pc = "monitor_backoff"
    /\ pc' = "monitor_top"
    /\ UNCHANGED <<running, consecutive_errors, queue_length, backoff_time,
                   redis_client, exit_code, client_call, monitor_call,
                   monitorFrame>>

\* while self.running: the flag is false; _shutdown
MonitorLoopExit ==
    /\ pc = "monitor_top"
    /\ ~running
    /\ redis_client' = FALSE
    /\ pc' = "monitor_stopped"
    /\ UNCHANGED <<running, consecutive_errors, queue_length, backoff_time,
                   exit_code, client_call, monitor_call, monitorFrame>>

\* QueueMonitor._signal_handler
MonitorSignal ==
    /\ pc \in {"monitor_top", "monitor_sleep", "monitor_backoff"}
    /\ running
    /\ running' = FALSE
    /\ UNCHANGED <<pc, consecutive_errors, queue_length, backoff_time,
                   redis_client, exit_code, client_call, monitor_call,
                   monitorFrame>>

NextMonitor ==
    \/ MonitorStart
    \/ MonitorConnectionLost
    \/ MonitorProbe
    \/ MonitorPollSleep
    \/ MonitorBackoffSleep
    \/ MonitorLoopExit
    \/ MonitorSignal

SpecMonitor == InitMonitor /\ [][NextMonitor]_vars

----------------------------------------------------------------------------
\* Properties.

\* C1: a scale_service call is in flight only in an iteration whose sampled
\* time is outside the cooldown period: current_time - last_scale_time is at
\* least cooldown_period, so an iteration inside the period makes no call.
C1_NoActuationInCooldown ==
    /\ pc = "scaling" =>
           current_time - last_scale_time >= config.cooldown_period
    /\ iteration = "cooldown" => pc # "scaling" /\ scale_result = "none"

\* C1 witness: after an actuation, an iteration inside the cooldown period
\* is sleeping while decide would return a decision for the queue depth and
\* the replicas at hand.
C1_Witness ==
    /\ pc = "poll_sleep"
    /\ iteration = "cooldown"
    /\ last_scale_time > 0
    /\ current_time - last_scale_time < config.cooldown_period
    /\ Decide(queueDepth, actualReplicas, config).some

\* C2: the step in which scale_service returns false increments
\* consecutive_errors by one.
C2_FailedActuationCounted ==
    [][(scale_result' = "failed" /\ scale_result # "failed")
           => consecutive_errors' = consecutive_errors + 1]_vars

\* C3: the step in which scale_service returns false leaves last_scale_time
\* as it was and goes on to the polling sleep without another call; until the
\* next iteration starts, the time since last_scale_time stays at least
\* cooldown_period, so the next iteration is a measuring cycle.
C3_FailedActuationNoCooldown ==
    /\ [][(scale_result' = "failed" /\ scale_result # "failed")
              => /\ last_scale_time' = last_scale_time
                 /\ pc' = "poll_sleep"]_vars
    /\ [](scale_result = "failed"
              => /\ pc \in {"poll_sleep", "loop_top", "stopped"}
                 /\ clock - last_scale_time >= config.cooldown_period)

\* C3 witness: after a failed call, with a cooldown period configured, the
\* loop is at the top of the next iteration and still running.
C3_Witness ==
    /\ scale_result = "failed"
    /\ pc = "loop_top"
    /\ running
    /\ config.cooldown_period > 0
    /\ current_time > last_scale_time

\* C4: once five cycles in a row have failed the flag is false and the loop
\* is at its top or stopped; it then reaches Stopped, and from Stopped the
\* main thread takes no step.
C4_FailStop ==
    /\ [](failStreak >= 5
              => ~running /\ pc \in {"loop_top", "stopped"})
    /\ (failStreak >= 5 ~> pc = "stopped")
    /\ [][pc = "stopped"
              => UNCHANGED <<pc, running, last_scale_time,
                             consecutive_errors, cycleLocals, redis_client,
                             docker_client, clock, actualReplicas,
                             historyVars>>]_vars

\* C4 witness: the loop has stopped on the fifth failure in a row.
C4_Witness ==
    /\ failStreak = 5
    /\ pc = "stopped"
    /\ stop_cause = "budget"

C6_SuccessResetsBudget ==
    /\ [][(pc \in {"measure", "scaling"} /\ pc' = "poll_sleep")
              => consecutive_errors' = 0]_vars
    /\ [](consecutive_errors = failStreak)
    /\ [](stop_cause = "budget" => failStreak >= 5)

\* C6 witness: a full cycle has ended after a run of four failures, and the
\* loop is still running with the counter at 0.
C6_Witness ==
    /\ pc = "poll_sleep"
    /\ iteration = "cycle"
    /\ backoff_time = 8
    /\ consecutive_errors = 0
    /\ running

\* C7: a signal received while the loop runs sets the flag and nothing else;
\* the cycle in progress goes on, the blocking scale call included; at the
\* top of the loop no new iteration starts; the loop reaches Stopped with the
\* store session released.
C7_CooperativeCancellation ==
    /\ [][(signalled' /\ ~signalled)
              => /\ ~running'
                 /\ UNCHANGED <<pc, last_scale_time, consecutive_errors,
                                cycleLocals, redis_client, scale_result>>]_vars
    /\ [](signalled => ~running)
    /\ [][(signalled /\ pc = "scaling")
              => pc' \in {"scaling", "poll_sleep"}]_vars
    /\ [][(signalled /\ pc \in {"measure", "poll_sleep", "backoff_sleep"})
              => pc' # "stopped"]_vars
    /\ [][(signalled /\ pc = "loop_top")
              => pc' \in {"loop_top", "stopped"}]_vars
    /\ [](signalled /\ pc = "stopped" => ~redis_client)
    /\ (signalled ~> pc = "stopped")

\* C7 witness: the signal has arrived and the scale call is still in flight.
C7_Witness ==
    /\ signalled
    /\ pc = "scaling"
    /\ redis_client

\* C8: the step that ends a cycle whose container list call failed
\* increments consecutive_errors by one.
C8_ReplicaQueryFailureCounted ==
    [][(replica_query' = "failed" /\ pc # "poll_sleep" /\ pc' = "poll_sleep")
           => consecutive_errors' = consecutive_errors + 1]_vars

\* C8, amended: a cycle whose container list call failed reports 0 replicas
\* and is a full cycle: no step of it increments consecutive_errors, and the
\* step that ends it sets consecutive_errors to 0.
C8_ReplicaQueryFailureNotCounted ==
    /\ [](replica_query = "failed" => current_replicas = 0)
    /\ [][replica_query' = "failed"
              => consecutive_errors' <= consecutive_errors]_vars
    /\ [][(replica_query' = "failed" /\ pc # "poll_sleep"
                                     /\ pc' = "poll_sleep")
              => consecutive_errors' = 0]_vars

\* C8 witness: a cycle whose list call failed while containers were running
\* has ended after a run of failures, with the counter back at 0.
C8_Witness ==
    /\ replica_query = "failed"
    /\ pc = "poll_sleep"
    /\ actualReplicas > 0
    /\ backoff_time > 0
    /\ consecutive_errors = 0

\* C9: the target of a scale_service call differs by at most one from the
\* number of containers running when the cycle measured.
C9_SingleStep ==
    pc = "scaling" =>
        /\ scaling_decision.target - actualReplicas <= 1
        /\ actualReplicas - scaling_decision.target <= 1

\* C10: decide returns a decision that raises the replica count exactly when
\* queue_length > scale_up_threshold and current_replicas < max_replicas; its
\* target is then current_replicas + 1, which is at most max_replicas, and
\* its reason gives the queue length and the scale-up threshold.
C10_ScaleUpDecision ==
    pc = "decided" =>
        LET d == scaling_decision
            up == d.some /\ d.target > current_replicas
        IN /\ up <=> (/\ queue_length > config.scale_up_threshold
                      /\ current_replicas < config.max_replicas)
           /\ up => /\ d.target = current_replicas + 1
                    /\ d.target <= config.max_replicas
                    /\ d.reason = [rel |-> ">", queue |-> queue_length,
                                   threshold |-> config.scale_up_threshold]

\* C10 witness: up=5, down=0, min=1, max=5, current=2, queue=6 gives target 3.
C10_Witness ==
    /\ pc = "decided"
    /\ config.scale_up_threshold = 5
    /\ config.scale_down_threshold = 0
    /\ config.min_replicas = 1
    /\ config.max_replicas = 5
    /\ current_replicas = 2
    /\ queue_length = 6
    /\ scaling_decision.some
    /\ scaling_decision.target = 3
    /\ scaling_decision.reason = [rel |-> ">", queue |-> 6, threshold |-> 5]

\* C11: decide returns a decision that lowers the replica count exactly when
\* queue_length <= scale_down_threshold and current_replicas > min_replicas,
\* and its target is then current_replicas - 1.
C11_ScaleDownDecision ==
    pc = "decided" =>
        LET d == scaling_decision
            down == d.some /\ d.target < current_replicas
        IN /\ down <=> (/\ queue_length <= config.scale_down_threshold
                        /\ current_replicas > config.min_replicas)
           /\ down => d.target = current_replicas - 1

\* C11, amended: decide returns a decision that lowers the replica count
\* exactly when queue_length <= scale_down_threshold and current_replicas >
\* min_replicas and the scale-up condition does not hold; its target is then
\* current_replicas - 1, which is at least min_replicas, and its reason gives
\* the queue length and the scale-down threshold.
C11_ScaleDownUnlessScaleUp ==
    pc = "decided" =>
        LET d == scaling_decision
            down == d.some /\ d.target < current_replicas
        IN /\ down <=> (/\ queue_length <= config.scale_down_threshold
                        /\ current_replicas > config.min_replicas
                        /\ ~(/\ queue_length > config.scale_up_threshold
                             /\ current_replicas < config.max_replicas))
           /\ down => /\ d.target = current_replicas - 1
                      /\ d.target >= config.min_replicas
                      /\ d.reason = [rel |-> "<=", queue |-> queue_length,
                                     threshold |->
                                         config.scale_down_threshold]

\* C11 witness: up=5, down=0, min=1, max=5, current=3, queue=0 gives target 2.
C11_Witness ==
    /\ pc = "decided"
    /\ config.scale_up_threshold = 5
    /\ config.scale_down_threshold = 0
    /\ config.min_replicas = 1
    /\ config.max_replicas = 5
    /\ current_replicas = 3
    /\ queue_length = 0
    /\ scaling_decision.some
    /\ scaling_decision.target = 2

\* C12: for scale_down_threshold < queue_length <= scale_up_threshold decide
\* returns no decision, whatever current_replicas is.
C12_DeadBand ==
    (/\ pc = "decided"
     /\ config.scale_down_threshold < queue_length
     /\ queue_length <= config.scale_up_threshold)
        => ~scaling_decision.some

\* C12 witness: current=3, queue=3 with up=5, down=0 gives no decision.
C12_Witness ==
    /\ pc = "decided"
    /\ config.scale_up_threshold = 5
    /\ config.scale_down_threshold = 0
    /\ current_replicas = 3
    /\ queue_length = 3
    /\ ~scaling_decision.some

\* C12 witness: in the dead band with more replicas running than
\* max_replicas, no decision either.
C12_WitnessOutside ==
    /\ pc = "decided"
    /\ config.scale_down_threshold < queue_length
    /\ queue_length <= config.scale_up_threshold
    /\ current_replicas > config.max_replicas
    /\ ~scaling_decision.some

\* C13: a scale-up decision has a target of at most max_replicas and a
\* scale-down decision a target of at least min_replicas.
C13_TargetWithinBound ==
    (pc = "decided" /\ scaling_decision.some) =>
        /\ scaling_decision.reason.rel = ">"
               => scaling_decision.target <= config.max_replicas
        /\ scaling_decision.reason.rel = "<="
               => scaling_decision.target >= config.min_replicas

\* C13 witness: a scale-up decision that reaches max_replicas.
C13_Witness ==
    /\ pc = "decided"
    /\ scaling_decision.some
    /\ scaling_decision.reason.rel = ">"
    /\ scaling_decision.target = config.max_replicas
    /\ current_replicas = config.max_replicas - 1

\* C14: with scale_down_threshold < scale_up_threshold the two conditions
\* never hold together; when both hold, decide returns the scale-up decision.
C14_ScaleUpPrecedence ==
    pc = "decided" =>
        LET upCond == /\ queue_length > config.scale_up_threshold
                      /\ current_replicas < config.max_replicas
            downCond == /\ queue_length <= config.scale_down_threshold
                        /\ current_replicas > config.min_replicas
        IN /\ config.scale_down_threshold < config.scale_up_threshold
                  => ~(upCond /\ downCond)
           /\ (upCond /\ downCond)
                  => /\ config.scale_down_threshold
                            >= config.scale_up_threshold
                     /\ scaling_decision.some
                     /\ scaling_decision.target = current_replicas + 1
                     /\ scaling_decision.reason.rel = ">"

\* C14 witness: both conditions hold and the decision is the scale-up one.
C14_Witness ==
    /\ pc = "decided"
    /\ queue_length > config.scale_up_threshold
    /\ current_replicas < config.max_replicas
    /\ queue_length <= config.scale_down_threshold
    /\ current_replicas > config.min_replicas
    /\ scaling_decision.target = current_replicas + 1

\* C15: with current_replicas = max_replicas and queue_length above
\* scale_up_threshold, and with current_replicas = min_replicas and
\* queue_length at or below scale_down_threshold, decide returns no decision.
C15_NoDecisionAtBound ==
    pc = "decided" =>
        /\ (/\ current_replicas = config.max_replicas
            /\ queue_length > config.scale_up_threshold)
               => ~scaling_decision.some
        /\ (/\ current_replicas = config.min_replicas
            /\ queue_length <= config.scale_down_threshold)
               => ~scaling_decision.some

\* C15, amended: at max_replicas with queue_length above scale_up_threshold
\* decide returns no decision unless the scale-down condition holds, and at
\* min_replicas with queue_length at or below scale_down_threshold it returns
\* no decision unless the scale-up condition holds; so it returns none at a
\* bound for every configuration with scale_down_threshold <=
\* scale_up_threshold.
C15_NoDecisionAtBoundUnlessOther ==
    pc = "decided" =>
        LET upCond == /\ queue_length > config.scale_up_threshold
                      /\ current_replicas < config.max_replicas
            downCond == /\ queue_length <= config.scale_down_threshold
                        /\ current_replicas > config.min_replicas
            atMax == /\ current_replicas = config.max_replicas
                     /\ queue_length > config.scale_up_threshold
            atMin == /\ current_replicas = config.min_replicas
                     /\ queue_length <= config.scale_down_threshold
        IN /\ atMax => (scaling_decision.some <=> downCond)
           /\ atMin => (scaling_decision.some <=> upCond)
           /\ ((atMax \/ atMin) /\ config.scale_down_threshold
                                      <= config.scale_up_threshold)
                  => ~scaling_decision.some

\* C15 witness: up=5, down=0, min=1, max=5, current=1, queue=0 gives none.
C15_Witness ==
    /\ pc = "decided"
    /\ config.scale_up_threshold = 5
    /\ config.scale_down_threshold = 0
    /\ config.min_replicas = 1
    /\ config.max_replicas = 5
    /\ current_replicas = 1
    /\ queue_length = 0
    /\ ~scaling_decision.some

\* C15 witness: at max_replicas = 5 with the queue above the threshold, none.
C15_WitnessAtMax ==
    /\ pc = "decided"
    /\ config.scale_up_threshold = 5
    /\ config.scale_down_threshold = 0
    /\ config.max_replicas = 5
    /\ current_replicas = 5
    /\ queue_length > 5
    /\ ~scaling_decision.some

\* C17: get_queue_length reads "myapp:jobs:wait", "myapp:jobs:waiting",
\* "myapp:jobs" in that order, stops at the first read that gives a value
\* and returns it, and goes past every read that raises.
C17_ProbeOrder ==
    (client_call.op = "get_queue_length" /\ client_call.session) =>
        LET order == <<"myapp:jobs:wait", "myapp:jobs:waiting", "myapp:jobs">>
            raises(i) == \/ client_call.faults[order[i]]
                         \/ store[order[i]].type = "string"
            value(i) == IF store[order[i]].type = "list"
                        THEN store[order[i]].len ELSE 0
            hits == {i \in 1..3 : ~raises(i)}
            res == client_call.result
        IN /\ ~res.raised
           /\ hits = {} => res.int = 0 /\ res.reads = order
           /\ \A i \in hits :
                  (\A j \in hits : i <= j)
                      => /\ res.int = value(i)
                         /\ res.reads = SubSeq(order, 1, i)

\* C17 witness: the read of the first key raises, the second key holds a
\* list of 7, and the third key, though it holds a list, is not read.
C17_Witness ==
    /\ client_call.op = "get_queue_length"
    /\ client_call.session
    /\ store["myapp:jobs:wait"].type = "string"
    /\ store["myapp:jobs:waiting"] = [type |-> "list", len |-> 7]
    /\ store["myapp:jobs"].type = "list"
    /\ client_call.result.int = 7
    /\ client_call.result.reads = <<"myapp:jobs:wait", "myapp:jobs:waiting">>

\* C18: with only "myapp:jobs:waiting" in the store, a list of 7 entries,
\* and every read answered, get_queue_length returns 7.
C18_KeyPatternFallback ==
    (/\ client_call.op = "get_queue_length"
     /\ client_call.session
     /\ client_call.faults = [k \in Keys |-> FALSE]
     /\ store["myapp:jobs:wait"].type = "none"
     /\ store["myapp:jobs:waiting"] = [type |-> "list", len |-> 7]
     /\ store["myapp:jobs"].type = "none")
        => client_call.result.int = 7

\* C19: get_queue_length does not raise and returns an integer >= 0: 0
\* without a session, and 0 when every read fails.
C19_ProbeTotal ==
    client_call.op = "get_queue_length" =>
        LET res == client_call.result
            fails(k) == client_call.faults[k] \/ store[k].type = "string"
        IN /\ ~res.raised
           /\ res.int >= 0
           /\ ~client_call.session => res.int = 0 /\ res.reads = <<>>
           /\ (\A k \in Keys : fails(k)) => res.int = 0

\* C19 witness: with a session, one read answered with a wrong-type error
\* and two failing on the connection, the probe has returned 0.
C19_Witness ==
    /\ client_call.op = "get_queue_length"
    /\ client_call.session
    /\ store["myapp:jobs:wait"].type = "string"
    /\ ~client_call.faults["myapp:jobs:wait"]
    /\ client_call.faults["myapp:jobs:waiting"]
    /\ client_call.faults["myapp:jobs"]
    /\ Len(client_call.result.reads) = 3
    /\ client_call.result.int = 0

\* C20: is_connected does not raise, whatever the ping does and with or
\* without a session.
C20_IsConnectedNeverRaises ==
    client_call.op = "is_connected" => ~client_call.result.raised


\* C21: after a disconnect call the client has no session, whatever calls
\* came before and whether or not close raised; the call raises nothing; a
\* disconnect without a session closes nothing and leaves the client as it
\* was, so a second disconnect changes nothing.
C21_DisconnectIdempotent ==
    /\ [](client_call.op = "disconnect"
              => ~redis_client /\ ~client_call.result.raised)
    /\ [][(client_call'.op = "disconnect" /\ ~redis_client)
              => /\ ~redis_client'
                 /\ client_call'.input = "no_client"
                 /\ ~client_call'.result.raised]_vars
    /\ [][(client_call.op = "disconnect" /\ client_call'.op = "disconnect")
              => /\ redis_client' = redis_client
                 /\ client_call'.input = "no_client"]_vars

\* C21 witness: a disconnect on a session whose close raised has left the
\* client without a session.
C21_Witness ==
    /\ client_call.op = "disconnect"
    /\ client_call.session
    /\ client_call.input = "close_failed"
    /\ ~redis_client

\* C22: get_current_replicas does not raise; without a client it returns 0
\* and lists nothing; when the list call fails it returns 0; otherwise it
\* returns the number of running containers that carry both the service and
\* the project label.
C22_ReplicaCounterTotal ==
    manager_call.op = "get_current_replicas" =>
        LET res == manager_call.result
            matching == {i \in ContainerIds :
                            containers[i] = [service |-> TRUE,
                                             project |-> TRUE,
                                             status |-> "running"]}
        IN /\ ~res.raised
           /\ res.int >= 0
           /\ ~manager_call.client => res.int = 0 /\ ~res.issued
           /\ manager_call.client => res.issued
           /\ (res.issued /\ manager_call.input # "ok") => res.int = 0
           /\ (res.issued /\ manager_call.input = "ok")
                  => res.int = Cardinality(matching)

\* C22 witness: one container of the service and project runs next to a
\* running container of the same service in another project, and the
\* counter has returned 1.
C22_Witness ==
    /\ manager_call.op = "get_current_replicas"
    /\ manager_call.client
    /\ manager_call.input = "ok"
    /\ manager_call.result.int = 1
    /\ \E i \in ContainerIds :
          /\ containers[i].service
          /\ ~containers[i].project
          /\ containers[i].status = "running"

\* C23: scale_service does not raise and returns a boolean: true exactly
\* when the target is not negative and the command exited zero; false on a
\* non-zero exit, a timeout, a missing tool and any other error; a negative
\* target returns false and no command is issued.
C23_ScaleOutcomeClassified ==
    manager_call.op = "scale_service" =>
        LET res == manager_call.result
        IN /\ ~res.raised
           /\ res.bool <=> (manager_call.target >= 0
                               /\ manager_call.input = "exit_zero")
           /\ manager_call.input \in {"exit_nonzero", "timeout", "not_found",
                                       "error"} => ~res.bool
           /\ manager_call.target < 0 => ~res.issued /\ ~res.bool
           /\ manager_call.target >= 0 => res.issued

\* C23 witness: a command for a target that is not negative has timed out
\* and the call has returned false.
C23_Witness ==
    /\ manager_call.op = "scale_service"
    /\ manager_call.target >= 0
    /\ manager_call.input = "timeout"
    /\ manager_call.result.issued
    /\ ~manager_call.result.bool

\* C24: the stages of startup run in the order configuration validation,
\* manifest preflight, store connection, orchestrator connection, and a
\* stage runs only when those before it succeeded; the loop is entered and
\* running is true only after all four succeeded, with a valid
\* configuration; when a stage fails the process has exited with a code
\* other than 0, without a measurement or a scale_service call; when the
\* orchestrator connection fails the store session is released.
C24_StartupOrder ==
    LET order == <<"config", "preflight", "store", "orchestrator">>
        failed == \E i \in 1..Len(startup) : ~startup[i].ok
        untouched == /\ iteration = "none"
                     /\ replica_query = "none"
                     /\ scale_result = "none"
                     /\ actuations.started = 0
                     /\ scaling_decision = NoDecision
                     /\ last_scale_time = 0
    IN /\ Len(startup) <= 4
       /\ \A i \in 1..Len(startup) :
             /\ startup[i].stage = order[i]
             /\ i < Len(startup) => startup[i].ok
       /\ (running \/ pc \in LoopPcs \cup {"connected", "stopped"})
              => /\ Len(startup) = 4
                 /\ ~failed
                 /\ config.min_replicas >= 1
                 /\ config.max_replicas >= config.min_replicas
                 /\ config.polling_interval >= 1
                 /\ config.cooldown_period >= 0
                 /\ config.project_name # ""
                 /\ config.port \in 1..65535
       /\ pc = "connected" => redis_client /\ docker_client /\ untouched
       /\ failed <=> pc = "exited"
       /\ failed => exit_code # 0 /\ ~running /\ untouched
       /\ ~failed => exit_code = 0
       /\ (Len(startup) = 4 /\ ~startup[4].ok) => ~redis_client

\* C24 witness: the store connection succeeded and the orchestrator
\* connection failed; the process has exited with 1 and holds no session.
C24_Witness ==
    /\ Len(startup) = 4
    /\ startup[3].ok
    /\ ~startup[4].ok
    /\ pc = "exited"
    /\ exit_code = 1
    /\ ~redis_client

\* C25: in an iteration at most one scale_service call is started; a call
\* is in flight exactly while the loop is inside _execute_scaling, so at
\* most one is in flight; a call starts only at the measurement step and
\* only when every call started before has returned.
C25_OneActuationInFlight ==
    /\ [](/\ actuations.started <= 1
          /\ actuations.returned <= actuations.started
          /\ pc = "scaling"
                 <=> actuations.started - actuations.returned = 1
          /\ pc # "scaling" => actuations.started = actuations.returned)
    /\ [][actuations'.started > actuations.started
              => /\ pc = "measure"
                 /\ actuations.started = 0
                 /\ actuations.returned = 0
                 /\ actuations'.started = 1]_vars
    /\ [][actuations'.returned > actuations.returned
              => /\ pc = "scaling"
                 /\ pc' # "scaling"
                 /\ actuations'.returned = actuations'.started]_vars

\* C25 witness: the one call of an iteration has returned false while
\* decide would still return a decision, and the loop is at the polling
\* sleep without a second call.
C25_Witness ==
    /\ pc = "poll_sleep"
    /\ scale_result = "failed"
    /\ actuations = [started |-> 1, returned |-> 1]
    /\ Decide(queueDepth, actualReplicas, config).some

\* C26: after an actuation, an iteration whose sampled time is within
\* cooldown_period of last_scale_time, and which did not itself scale, has
\* measured the replica count by the time it sleeps.
C26_MeasuredInCooldown ==
    (/\ pc = "poll_sleep"
     /\ last_scale_time > 0
     /\ scale_result # "ok"
     /\ current_time - last_scale_time < config.cooldown_period)
        => replica_query # "none"

\* C26, amended: an iteration whose sampled time is within cooldown_period
\* of last_scale_time makes no measurement and no scale_service call: it
\* goes from the top of the loop to the polling sleep, and queue_length,
\* current_replicas and the decision keep the values of the last measuring
\* cycle.
C26_CooldownSkipsMeasurement ==
    /\ []((/\ pc \in LoopPcs \ {"loop_top"}
           /\ scale_result # "ok"
           /\ current_time - last_scale_time < config.cooldown_period)
              => /\ pc = "poll_sleep"
                 /\ replica_query = "none"
                 /\ scale_result = "none"
                 /\ actuations.started = 0)
    /\ [][(/\ pc = "loop_top"
           /\ pc' \notin {"loop_top", "stopped"}
           /\ clock - last_scale_time < config.cooldown_period)
              => /\ pc' = "poll_sleep"
                 /\ UNCHANGED <<queue_length, current_replicas,
                                scaling_decision>>]_vars

\* C26 witness: inside the cooldown period the queue depth has changed
\* since it was last measured, and the iteration sleeps without having
\* measured it.
C26_Witness ==
    /\ pc = "poll_sleep"
    /\ last_scale_time > 0
    /\ scale_result = "none"
    /\ current_time - last_scale_time < config.cooldown_period
    /\ queueDepth # queue_length
    /\ replica_query = "none"

\* C27: when a scale_service call starts after a successful call has
\* returned, at least cooldown_period seconds have passed since that return
\* (times below the horizon of the clock are exact).
C27_CooldownAfterReturn ==
    [][(/\ actuations'.started > actuations.started
        /\ scale_returned >= 0
        /\ clock < MaxTime)
           => clock - scale_returned >= config.cooldown_period]_vars

\* C28: the step the main thread takes at the top of the loop when the
\* flag is set and the time is within cooldown_period of last_scale_time
\* goes to the polling sleep and leaves running, last_scale_time,
\* consecutive_errors, the store session and the measurements and decision
\* as they were; the iteration makes no list call and no scale_service
\* call; its only other step is the sleep of polling_interval seconds,
\* after which the loop is at its top again.
C28_CooldownIterationFrame ==
    /\ [][(/\ pc = "loop_top"
           /\ pc' # "loop_top"
           /\ running
           /\ clock - last_scale_time < config.cooldown_period)
              => /\ pc' = "poll_sleep"
                 /\ iteration' = "cooldown"
                 /\ cycle_error' = "none"
                 /\ UNCHANGED <<running, last_scale_time,
                                consecutive_errors, redis_client,
                                docker_client, queue_length,
                                current_replicas, scaling_decision,
                                backoff_time, clock, actualReplicas>>]_vars
    /\ [](iteration = "cooldown"
              => /\ pc \in {"poll_sleep", "loop_top", "stopped"}
                 /\ replica_query = "none"
                 /\ scale_result = "none"
                 /\ cycle_error = "none"
                 /\ actuations.started = 0)
    /\ [][(iteration = "cooldown" /\ pc = "poll_sleep" /\ pc' # pc)
              => /\ pc' = "loop_top"
                 /\ clock' = IF clock + config.polling_interval < MaxTime
                              THEN clock + config.polling_interval
                              ELSE MaxTime
                 /\ UNCHANGED <<running, last_scale_time,
                                consecutive_errors, redis_client,
                                queue_length, current_replicas,
                                scaling_decision>>]_vars

\* C28 witness: after an actuation a cooldown iteration has slept and is
\* back at the top of the loop, still running and still inside the
\* cooldown period.
C28_Witness ==
    /\ iteration = "cooldown"
    /\ pc = "loop_top"
    /\ running
    /\ last_scale_time > 0
    /\ clock > current_time
    /\ clock - last_scale_time < config.cooldown_period

\* C29: the step in which a cycle fails (the reconnect fails, or an
\* exception reaches the loop) increments consecutive_errors by one, leaves
\* last_scale_time as it was, and goes to a backoff sleep of
\* min(consecutive_errors * 2, 60) seconds.
C29_FailedCycleBacksOff ==
    [][(cycle_error' # "none" /\ cycle_error = "none")
           => /\ consecutive_errors' = consecutive_errors + 1
              /\ last_scale_time' = last_scale_time
              /\ pc' = "backoff_sleep"
              /\ backoff_time' = IF consecutive_errors' * 2 < 60
                                 THEN consecutive_errors' * 2 ELSE 60]_vars

\* C29, amended: the step in which a cycle fails happens at the connection
\* check, increments consecutive_errors by one and leaves last_scale_time
\* as it was; below five errors it goes to a backoff sleep of
\* min(consecutive_errors * 2, 60) seconds, at the fifth it clears running
\* and goes to the top of the loop without a sleep; the failed cycle makes
\* no measurement and no scale_service call; the backoff sleep lasts
\* backoff_time and takes the place of the polling sleep; a connection
\* check that ends well goes on to the measurement of the same cycle with
\* the counter as it was.
C29_FailedCycleBacksOffOrStops ==
    /\ [][(cycle_error' # "none" /\ cycle_error = "none")
              => /\ pc = "check_conn"
                 /\ consecutive_errors' = consecutive_errors + 1
                 /\ last_scale_time' = last_scale_time
                 /\ clock' = clock
                 /\ IF consecutive_errors' < 5
                    THEN /\ pc' = "backoff_sleep"
                         /\ backoff_time' =
                                IF consecutive_errors' * 2 < 60
                                THEN consecutive_errors' * 2 ELSE 60
                         /\ running' = running
                    ELSE /\ pc' = "loop_top"
                         /\ ~running'
                         /\ backoff_time' = backoff_time]_vars
    /\ [](cycle_error # "none"
              => /\ pc \in {"backoff_sleep", "loop_top", "stopped"}
                 /\ replica_query = "none"
                 /\ scale_result = "none"
                 /\ actuations.started = 0)
    /\ [][(pc = "backoff_sleep" /\ pc' # pc)
              => /\ pc' = "loop_top"
                 /\ clock' = IF clock + backoff_time < MaxTime
                              THEN clock + backoff_time ELSE MaxTime
                 /\ UNCHANGED <<last_scale_time, consecutive_errors>>]_vars
    /\ [][(pc = "check_conn" /\ pc' = "measure")
              => UNCHANGED <<consecutive_errors, last_scale_time, running,
                             iteration, cycle_error, current_time>>]_vars

\* C29 witness: after an actuation, the third failure in a row, a failed
\* reconnect, has sent the loop to a backoff sleep of 6 seconds.
C29_Witness ==
    /\ cycle_error = "reconnect"
    /\ pc = "backoff_sleep"
    /\ consecutive_errors = 3
    /\ backoff_time = 6
    /\ last_scale_time > 0

\* C30: with scale_down_threshold < scale_up_threshold, a queue depth that
\* stays as it is, scale commands that succeed and a list call that reports
\* the replicas running: two decisions in a row go the same way, once a
\* cycle has produced no decision no later cycle produces one, and the loop
\* reaches a replica count at which no decision is produced and stays
\* there.
C30_HysteresisSettles ==
    /\ [][(/\ config.scale_down_threshold < config.scale_up_threshold
           /\ scaling_decision.some
           /\ scaling_decision'.some)
              => /\ scaling_decision.target # current_replicas
                 /\ scaling_decision'.target # current_replicas'
                 /\ (scaling_decision.target > current_replicas)
                        <=> (scaling_decision'.target > current_replicas')
           ]_vars
    /\ [][(/\ config.scale_down_threshold < config.scale_up_threshold
           /\ pc = "settled")
              => /\ ~scaling_decision'.some
                 /\ actualReplicas' = actualReplicas]_vars
    /\ (config.scale_down_threshold < config.scale_up_threshold
           => <>[](/\ pc = "settled"
                   /\ ~scaling_decision.some
                   /\ current_replicas = actualReplicas))

\* C30 witness: with thresholds in the normal order and the queue above
\* the scale-up threshold, the loop scaled up in a cycle after its first
\* and has settled at max_replicas.
C30_Witness ==
    /\ pc = "settled"
    /\ config.scale_down_threshold < config.scale_up_threshold
    /\ queue_length > config.scale_up_threshold
    /\ last_scale_time > 1
    /\ current_replicas = config.max_replicas
    /\ config.max_replicas - config.min_replicas >= 2

C32_CooldownWithZeroErrors ==
    /\ [](iteration = "cooldown" /\ pc = "poll_sleep"
              => consecutive_errors = 0)
    /\ [][(/\ pc = "loop_top"
           /\ pc' = "poll_sleep"
           /\ clock - last_scale_time < config.cooldown_period)
              => consecutive_errors = 0 /\ consecutive_errors' = 0]_vars

\* C32 witness: a cooldown iteration after a cycle that scaled at the end
\* of a run of four failures.
C32_Witness ==
    /\ iteration = "cooldown"
    /\ pc = "poll_sleep"
    /\ backoff_time = 8
    /\ last_scale_time > 0
    /\ consecutive_errors = 0

\* C39: last_scale_time changes only in the step in which scale_service
\* returns true; it is then the time sampled at the top of that iteration,
\* which is later than the value it had; every other step leaves it as it
\* was, so it never decreases.
C39_LastScaleTimeFrame ==
    /\ [][last_scale_time' # last_scale_time
              => /\ pc = "scaling"
                 /\ scale_result' = "ok"
                 /\ last_scale_time' = current_time
                 /\ current_time' = current_time
                 /\ last_scale_time' > last_scale_time]_vars
    /\ [][(pc = "scaling" /\ scale_result' = "ok")
              => last_scale_time' = current_time]_vars
    /\ [][(pc # "scaling" \/ scale_result' # "ok")
              => last_scale_time' = last_scale_time]_vars
    /\ [](last_scale_time <= current_time /\ current_time <= clock)

\* C39 witness: a call that failed at a sampled time later than
\* last_scale_time has left last_scale_time, set by an earlier success, as
\* it was.
C39_Witness ==
    /\ scale_result = "failed"
    /\ last_scale_time > 0
    /\ current_time > last_scale_time

C33_TargetWithinLimits ==
    (pc = "decided" /\ scaling_decision.some)
        => /\ scaling_decision.target >= config.min_replicas
           /\ scaling_decision.target <= config.max_replicas

\* C34: after a signal that arrived before the loop was entered, while the
\* services were being connected or just before running is set, the loop
\* begins no iteration: its first test of running leads to the shutdown.
C34_SignalStopsFromStartup ==
    [][startup_signal /\ pc = "loop_top" => pc' \in {"loop_top", "stopped"}]_vars

\* C35: the first iteration of the loop, which has never scaled, goes on to
\* the connection check whatever the clock and the cooldown period are, and
\* with a cooldown period of 0 no iteration takes the cooldown branch.
C35_NeverScaledNotInCooldown ==
    [][/\ (pc = "loop_top" /\ iteration = "none" /\ running)
            => pc' \in {"loop_top", "check_conn"}
       /\ config.cooldown_period = 0 => iteration' # "cooldown"]_vars

\* C38: with scale commands that succeed, a list call that reports the
\* replicas running and no signal, a service that runs fewer than
\* min_replicas replicas is eventually scaled to min_replicas or more,
\* whatever the queue depth is. (A cycle without a decision at the clock
\* horizon leaves the state as it is: the loop goes on, the state repeats.)
C38_MinimumRestored ==
    (actualReplicas < config.min_replicas)
        ~> (actualReplicas >= config.min_replicas)

\* C37: for the same session, store and read outcomes the monitor's
\* get_queue_length reads the same keys in the same order and returns the
\* same value as the scaler's, and no step of the monitor starts a scale
\* command or changes the replicas running.
C37_ProbesEquivalent ==
    /\ [](monitor_call.op = "get_queue_length"
              => /\ client_call.op = "get_queue_length"
                 /\ client_call.session = monitor_call.session
                 /\ client_call.faults = monitor_call.faults
                 /\ monitor_call.result.reads = client_call.result.reads
                 /\ monitor_call.result.int = client_call.result.int
                 /\ monitor_call.result.raised = client_call.result.raised
                 /\ queue_length = client_call.result.int)
    /\ [][/\ actuations' = actuations
          /\ manager_call' = manager_call
          /\ scale_result' = scale_result
          /\ actualReplicas' = actualReplicas
          /\ containers' = containers]_vars

\* C37 witness: the monitor probed a store in which the first two
\* candidates gave no length, one by a reply of the wrong type and one by
\* a failed read, and the third is a list of several jobs, whose length
\* both probes returned after three reads.
C37_Witness ==
    /\ pc = "monitor_sleep"
    /\ monitor_call.op = "get_queue_length"
    /\ Len(monitor_call.result.reads) = 3
    /\ monitor_call.result.int > 1
    /\ client_call.result.int = monitor_call.result.int
    /\ store[monitor_call.result.reads[1]].type = "string"
    /\ monitor_call.faults[monitor_call.result.reads[2]]
    /\ store[monitor_call.result.reads[3]].type = "list"

====
